---- MODULE Spec2Model ----
(***************************************************************************)
(* Netpbm codec: ReadPBM (bool-backed and int-backed), ReadPGM, Save and   *)
(* the in-place transforms, modelled at the level of file bytes.           *)
(*                                                                         *)
(* A file is a sequence of bytes (0..255); file index k (0-based, as in    *)
(* the Go code) is element k+1 of the sequence.  Strings are byte          *)
(* sequences.  The Go library calls the readers make (bufio.Scanner with   *)
(* ScanLines, os.File.Read, strings.TrimSpace / Fields / HasPrefix,        *)
(* strconv.Atoi, fmt's %d) are modelled by what they do on those bytes.    *)
(***************************************************************************)
EXTENDS Integers, Sequences, FiniteSets, TLC

(***************************************************************************)
(* Bytes and text                                                          *)
(***************************************************************************)
NL == 10
CR == 13
SP == 32
HASH == 35
PLUS == 43
MINUS == 45
ZERO == 48
CHP == 80

Min2(a, b) == IF a <= b THEN a ELSE b

\* unicode.IsSpace on the single-byte (ASCII) code points; the model's byte
\* alphabet holds no multi-byte UTF-8 white space.
IsSpace(b) == b \in {9, 10, 11, 12, 13, SP}

IsDigit(b) == b >= ZERO /\ b <= ZERO + 9

RECURSIVE TrimLeftIdx(_, _)
TrimLeftIdx(s, i) ==
    IF i > Len(s) \/ ~IsSpace(s[i]) THEN i ELSE TrimLeftIdx(s, i + 1)

RECURSIVE TrimRightIdx(_, _)
TrimRightIdx(s, i) ==
    IF i < 1 \/ ~IsSpace(s[i]) THEN i ELSE TrimRightIdx(s, i - 1)

TrimFrom(s, lo) ==
    IF lo > Len(s) THEN <<>> ELSE SubSeq(s, lo, TrimRightIdx(s, Len(s)))

\* strings.TrimSpace
TrimSpace(s) == TrimFrom(s, TrimLeftIdx(s, 1))

\* strings.HasPrefix
HasPrefix(s, p) == Len(s) >= Len(p) /\ SubSeq(s, 1, Len(p)) = p

\* strings.Fields: the maximal runs of non-space bytes, in order.
RECURSIVE FieldsFrom(_, _, _)
FieldsFrom(s, i, cur) ==
    IF i > Len(s) THEN (IF cur = <<>> THEN <<>> ELSE <<cur>>)
    ELSE IF IsSpace(s[i])
         THEN (IF cur = <<>> THEN <<>> ELSE <<cur>>) \o FieldsFrom(s, i + 1, <<>>)
         ELSE FieldsFrom(s, i + 1, Append(cur, s[i]))

Fields(s) == FieldsFrom(s, 1, <<>>)

RECURSIVE DigitsValue(_, _, _)
DigitsValue(s, i, acc) ==
    IF i > Len(s) THEN acc ELSE DigitsValue(s, i + 1, acc * 10 + (s[i] - ZERO))

AllDigits(digs) == Len(digs) > 0 /\ \A i \in 1..Len(digs) : IsDigit(digs[i])

AtoiDigits(neg, digs) ==
    IF ~AllDigits(digs) THEN [n |-> 0, err |-> "syntax"]
    ELSE [n |-> (IF neg THEN 0 - 1 ELSE 1) * DigitsValue(digs, 1, 0), err |-> "nil"]

\* strconv.Atoi on a string of fewer than 19 bytes: an optional sign, then
\* decimal digits only.  On a syntax error the value is 0.
Atoi(s) ==
    IF Len(s) > 0 /\ s[1] \in {PLUS, MINUS}
    THEN AtoiDigits(s[1] = MINUS, Tail(s))
    ELSE AtoiDigits(FALSE, s)

RECURSIVE NatDigits(_)
NatDigits(n) ==
    IF n < 10 THEN <<ZERO + n>> ELSE Append(NatDigits(n \div 10), ZERO + (n % 10))

\* fmt's %d of an int
Itoa(n) == IF n < 0 THEN <<MINUS>> \o NatDigits(0 - n) ELSE NatDigits(n)

\* Go's uint8(x) conversion of an int
Uint8(x) == x % 256

(***************************************************************************)
(* bufio.Scanner over an os.File                                           *)
(*                                                                         *)
(* pos   : file index of the next byte the scanner has not yet handed out  *)
(*         (the byte at buf[start])                                        *)
(* off   : the file's read offset (the byte after buf[end-1])              *)
(* start : s.start; s.end is start + (off - pos)                           *)
(* cap   : len(s.buf)                                                      *)
(* err   : s.err ("nil", "EOF" or "ErrTooLong")                            *)
(***************************************************************************)
startBufSize == 4096
maxTokenSize == 65536

NewScanner == [pos |-> 0, off |-> 0, start |-> 0, cap |-> 0, err |-> "nil"]

\* bufio's dropCR
dropCR(data) ==
    IF Len(data) > 0 /\ data[Len(data)] = CR
    THEN SubSeq(data, 1, Len(data) - 1) ELSE data

\* os.File.Read on a regular file: up to `want` bytes from offset off;
\* 0 bytes and io.EOF at the end of the file.
FileReadN(f, off, want) == Min2(want, Len(f) - off)

MinOf(S) == CHOOSE k \in S : \A m \in S : k <= m

NoToken == [advance |-> 0, has |-> FALSE, token |-> <<>>]

\* bufio.ScanLines on the window [lo, hi) of the file, nl the places of its
\* newline bytes.
ScanLinesAt(f, lo, hi, atEOF, nl) ==
    IF atEOF /\ hi = lo THEN NoToken
    ELSE IF nl # {}
    THEN [advance |-> MinOf(nl) + 1 - lo, has |-> TRUE,
          token |-> dropCR(SubSeq(f, lo + 1, MinOf(nl)))]
    ELSE IF atEOF
    THEN [advance |-> hi - lo, has |-> TRUE, token |-> dropCR(SubSeq(f, lo + 1, hi))]
    ELSE NoToken

ScanLines(f, lo, hi, atEOF) ==
    ScanLinesAt(f, lo, hi, atEOF, {k \in lo..(hi - 1) : f[k + 1] = NL})

\* s.end
ScanEnd(s) == s.start + (s.off - s.pos)

\* The buffer bookkeeping of Scan before a read: slide the data down, then
\* double a full buffer.
ScanShift(s) ==
    IF s.start > 0 /\ (ScanEnd(s) = s.cap \/ s.start > s.cap \div 2)
    THEN [s EXCEPT !.start = 0] ELSE s

ScanGrow(s) ==
    IF ScanEnd(s) # s.cap THEN s
    ELSE IF s.cap >= maxTokenSize THEN [s EXCEPT !.err = "ErrTooLong"]
    ELSE [s EXCEPT !.start = 0,
                   !.cap = IF s.cap = 0 THEN startBufSize
                           ELSE Min2(2 * s.cap, maxTokenSize)]

\* Scanner.Scan: [ok, token, s].  A token in the buffer is handed out; else
\* the buffer is filled by one Read of the file and the scan goes on.
RECURSIVE Scan(_, _)

ScanFill(f, g, n) ==
    Scan(f, [g EXCEPT !.off = @ + n, !.err = IF n = 0 THEN "EOF" ELSE "nil"])

ScanRead(f, g) ==
    IF g.err # "nil" THEN [ok |-> FALSE, token |-> <<>>, s |-> g]
    ELSE ScanFill(f, g, FileReadN(f, g.off, g.cap - ScanEnd(g)))

ScanSplit(f, s, sp) ==
    IF sp.has
    THEN [ok |-> TRUE, token |-> sp.token,
          s |-> [s EXCEPT !.pos = @ + sp.advance, !.start = @ + sp.advance]]
    ELSE IF s.err # "nil"
    THEN [ok |-> FALSE, token |-> <<>>, s |-> [s EXCEPT !.start = 0]]
    ELSE ScanRead(f, ScanGrow(ScanShift(s)))

Scan(f, s) ==
    ScanSplit(f, s, IF s.off > s.pos \/ s.err # "nil"
                    THEN ScanLines(f, s.pos, s.off, s.err # "nil")
                    ELSE NoToken)

\* Scanner.Err: io.EOF is reported as nil.
ScanErr(s) == IF s.err = "EOF" THEN "nil" ELSE s.err

\* The readers' readNextLine closure: the next line that is neither blank
\* nor a comment; at the end of input the empty string with scanner.Err().
RECURSIVE readNextLine(_, _)

KeepLine(f, s, line) ==
    IF line # <<>> /\ ~HasPrefix(line, <<HASH>>)
    THEN [line |-> line, err |-> "nil", s |-> s]
    ELSE readNextLine(f, s)

LineOf(f, r) ==
    IF ~r.ok THEN [line |-> <<>>, err |-> ScanErr(r.s), s |-> r.s]
    ELSE KeepLine(f, r.s, TrimSpace(r.token))

readNextLine(f, s) == LineOf(f, Scan(f, s))

(***************************************************************************)
(* Images and decoding                                                     *)
(*                                                                         *)
(* codec "PBM" is the bool-backed reader with Save and the transforms,     *)
(* "PBMInt" the int-backed reader, "PGM" the greyscale reader.  An image   *)
(* is [data, width, height, magicNumber, max]; max is 0 for a bitmap.      *)
(* A call ends "ok" with an image, "error" with an error and no image, or  *)
(* "panic" when an index is out of range.                                  *)
(***************************************************************************)
P1 == <<CHP, ZERO + 1>>
P2 == <<CHP, ZERO + 2>>
P3 == <<CHP, ZERO + 3>>
P4 == <<CHP, ZERO + 4>>
P5 == <<CHP, ZERO + 5>>

NoImage == [data |-> <<>>, width |-> 0, height |-> 0, magicNumber |-> <<>>, max |-> 0]

Accepted(codec) == IF codec = "PGM" THEN {P2, P5} ELSE {P1, P4}
AsciiMagic(codec) == IF codec = "PGM" THEN P2 ELSE P1

\* The element a parsed ASCII token is stored as.
PixelOf(codec, n) ==
    CASE codec = "PBM" -> (n = 1)
      [] codec = "PBMInt" -> n
      [] OTHER -> Uint8(n)

\* The element a packed bit is stored as by the bitmap readers.
BitPixel(codec, bit) == IF codec = "PBM" THEN bit = 1 ELSE bit

\* make([]T, width)'s zero value.
ZeroPixel(codec) == IF codec = "PBM" THEN FALSE ELSE 0

Failed(e, n) ==
    [status |-> "error", err |-> e, img |-> NoImage, bodyReads |-> n]

Panicked(n) ==
    [status |-> "panic", err |-> "index out of range", img |-> NoImage,
     bodyReads |-> n]

\* AsciiStore as it would be if a row were built from its tokens alone, not
\* allocated at the image's width.
AsciiStoreNoFill(codec, parsed, width, bad) ==
    IF bad = {}
    THEN [status |-> "ok", row |-> [j \in 1..Len(parsed) |-> PixelOf(codec, parsed[j].n)]]
    ELSE IF parsed[MinOf(bad)].err # "nil"
    THEN [status |-> "error", row |-> <<>>]
    ELSE [status |-> "panic", row |-> <<>>]

\* One ASCII body line, given the tokens' Atoi results: tokens are stored
\* left to right; a token that is no integer ends the call with an error,
\* a token past the row's last column is an out-of-range index.
AsciiStore(codec, parsed, width, bad) ==
    IF bad = {}
    THEN [status |-> "ok",
          row |-> [j \in 1..width |->
                     IF j <= Len(parsed) THEN PixelOf(codec, parsed[j].n)
                     ELSE ZeroPixel(codec)]]
    ELSE IF parsed[MinOf(bad)].err # "nil"
    THEN [status |-> "error", row |-> <<>>]
    ELSE [status |-> "panic", row |-> <<>>]

AsciiParsed(codec, parsed, width) ==
    AsciiStore(codec, parsed, width,
               {j \in 1..Len(parsed) : parsed[j].err # "nil" \/ j > width})

AsciiRow(codec, tokens, width) ==
    AsciiParsed(codec, [j \in 1..Len(tokens) |-> Atoi(tokens[j])], width)

\* The P1 / P2 body loop, from row i (0-based) on; reads counts the calls
\* of readNextLine.
RECURSIVE AsciiBody(_, _, _, _, _, _, _)

AsciiNext(codec, f, s, i, width, height, data, rr) ==
    IF rr.status = "error"
    THEN [status |-> "error", err |-> "syntax", data |-> <<>>, reads |-> i + 1]
    ELSE IF rr.status = "panic"
    THEN [status |-> "panic", err |-> "nil", data |-> <<>>, reads |-> i + 1]
    ELSE AsciiBody(codec, f, s, i + 1, width, height, Append(data, rr.row))

AsciiLine(codec, f, i, width, height, data, r) ==
    IF r.err # "nil"
    THEN [status |-> "error", err |-> r.err, data |-> <<>>, reads |-> i + 1]
    ELSE AsciiNext(codec, f, r.s, i, width, height, data,
                   AsciiRow(codec, Fields(r.line), width))

AsciiBody(codec, f, s, i, width, height, data) ==
    IF i >= height THEN [status |-> "ok", err |-> "nil", data |-> data, reads |-> i]
    ELSE AsciiLine(codec, f, i, width, height, data, readNextLine(f, s))

paddingBits(width) == (8 - (width % 8)) % 8
bytesPerRow(width) == (width + paddingBits(width) + 7) \div 8

\* (b >> bitIndex) & 1
BitOf(b, bitIndex) == (b \div (2 ^ bitIndex)) % 2

\* file.Read(buffer) returning n: the first n bytes of the buffer are
\* overwritten, the rest keep what they held.
ReadInto(f, off, buffer, n) ==
    [k \in 1..Len(buffer) |-> IF k <= n THEN f[off + k] ELSE buffer[k]]

\* The P4 body loop: one file.Read of bytesPerRow bytes per row, at the
\* file's offset off, into the buffer the rows share.
RECURSIVE P4Body(_, _, _, _, _, _, _, _)

P4Row(codec, f, off, i, width, height, buf, data, n) ==
    IF n = 0
    THEN [status |-> "error", err |-> "EOF", data |-> <<>>, reads |-> i + 1]
    ELSE P4Body(codec, f, off + n, i + 1, width, height, buf,
                Append(data, [j \in 1..width |->
                    BitPixel(codec, BitOf(buf[((j - 1) \div 8) + 1], 7 - ((j - 1) % 8)))]))

P4Read(codec, f, off, i, width, height, buffer, data, n) ==
    P4Row(codec, f, off, i, width, height, ReadInto(f, off, buffer, n), data, n)

P4Body(codec, f, off, i, width, height, buffer, data) ==
    IF i >= height THEN [status |-> "ok", err |-> "nil", data |-> data, reads |-> i]
    ELSE P4Read(codec, f, off, i, width, height, buffer, data,
                FileReadN(f, off, Len(buffer)))

\* The P5 body: one file.Read of width*height bytes at the file's offset.
P5Fill(width, height, buf, n) ==
    IF n = 0
    THEN [status |-> "error", err |-> "EOF", data |-> <<>>, reads |-> 1]
    ELSE [status |-> "ok", err |-> "nil", reads |-> 1,
          data |-> [i \in 1..height |->
                      [j \in 1..width |-> Uint8(buf[(i - 1) * width + j])]]]

P5Read(f, off, width, height, n) ==
    P5Fill(width, height, ReadInto(f, off, [k \in 1..(width * height) |-> 0], n), n)

P5Body(f, off, width, height) ==
    P5Read(f, off, width, height, FileReadN(f, off, width * height))

\* NonEmpty as it would be with || for &&.
NonEmptyEither(width, height) == width > 0 \/ height > 0

\* The guard of the body decode: the image is not empty.
NonEmpty(width, height) == width > 0 /\ height > 0

MkImage(data, width, height, magic, max) ==
    [data |-> data, width |-> width, height |-> height, magicNumber |-> magic,
     max |-> max]

Returned(magic, width, height, max, b) ==
    IF b.status = "ok"
    THEN [status |-> "ok", err |-> "nil", bodyReads |-> b.reads,
          img |-> MkImage(b.data, width, height, magic, max)]
    ELSE IF b.status = "panic" THEN Panicked(b.reads)
    ELSE Failed(b.err, b.reads)

\* What follows the header: nothing for an empty image, else the body the
\* magic number names.  s is the scanner after the header's last line; the
\* packed bodies are read from the file itself, at its offset s.off.
Body(codec, f, s, magic, width, height, max) ==
    IF ~NonEmpty(width, height)
    THEN [status |-> "ok", err |-> "nil", bodyReads |-> 0,
          img |-> MkImage(<<>>, width, height, magic, max)]
    ELSE Returned(magic, width, height, max,
            IF magic = AsciiMagic(codec)
            THEN AsciiBody(codec, f, s, 0, width, height, <<>>)
            ELSE IF codec = "PGM"
            THEN P5Body(f, s.off, width, height)
            ELSE P4Body(codec, f, s.off, 0, width, height,
                        [k \in 1..bytesPerRow(width) |-> 0], <<>>))

\* The dimension line: exactly two tokens; what Atoi makes of each is taken
\* as it comes, its error dropped.
DimsOK(dimTokens) == Len(dimTokens) = 2

\* ReadPBM of either bitmap reader on the file f, line by line.
PBMSize(codec, f, s, magic, dt) ==
    IF ~DimsOK(dt) THEN Failed("invalid image dimensions", 0)
    ELSE Body(codec, f, s, magic, Atoi(dt[1]).n, Atoi(dt[2]).n, 0)

PBMDims(codec, f, magic, d) ==
    IF d.err # "nil" THEN Failed(d.err, 0)
    ELSE PBMSize(codec, f, d.s, magic, Fields(d.line))

PBMMagic(codec, f, m) ==
    IF m.err # "nil" THEN Failed(m.err, 0)
    ELSE IF m.line \notin Accepted(codec) THEN Failed("unsupported file type", 0)
    ELSE PBMDims(codec, f, m.line, readNextLine(f, m.s))

DecodePBM(codec, f) == PBMMagic(codec, f, readNextLine(f, NewScanner))

\* ReadPGM on the file f, line by line.
PGMBody(f, s, magic, width, height, mv) ==
    IF mv.err # "nil" THEN Failed("invalid max value", 0)
    ELSE Body("PGM", f, s, magic, width, height, mv.n)

PGMMax(f, magic, dt, x) ==
    IF x.err # "nil" THEN Failed(x.err, 0)
    ELSE PGMBody(f, x.s, magic, Atoi(dt[1]).n, Atoi(dt[2]).n, Atoi(x.line))

PGMSize(f, s, magic, dt) ==
    IF ~DimsOK(dt) THEN Failed("invalid image dimensions", 0)
    ELSE PGMMax(f, magic, dt, readNextLine(f, s))

PGMDims(f, magic, d) ==
    IF d.err # "nil" THEN Failed(d.err, 0)
    ELSE PGMSize(f, d.s, magic, Fields(d.line))

PGMMagic(f, m) ==
    IF m.err # "nil" THEN Failed(m.err, 0)
    ELSE IF m.line \notin Accepted("PGM") THEN Failed("unsupported file type", 0)
    ELSE PGMDims(f, m.line, readNextLine(f, m.s))

DecodePGM(f) == PGMMagic(f, readNextLine(f, NewScanner))

Decode(codec, f) == IF codec = "PGM" THEN DecodePGM(f) ELSE DecodePBM(codec, f)

(***************************************************************************)
(* Save and the in-place operations                                        *)
(***************************************************************************)
\* RowText as it would be with "%d" for "%d ": no space after a pixel.
RECURSIVE RowTextNoSep(_, _, _)
RowTextNoSep(codec, row, j) ==
    IF j > Len(row) THEN <<NL>>
    ELSE Itoa(IF codec = "PBM" THEN (IF row[j] THEN 1 ELSE 0) ELSE row[j])
         \o RowTextNoSep(codec, row, j + 1)

\* fmt.Fprintf(writer, "%d ", pixel) for each pixel of a row, then a newline.
RECURSIVE RowText(_, _, _)
RowText(codec, row, j) ==
    IF j > Len(row) THEN <<NL>>
    ELSE Itoa(IF codec = "PBM" THEN (IF row[j] THEN 1 ELSE 0) ELSE row[j])
         \o <<SP>> \o RowText(codec, row, j + 1)

\* The rows Save writes: rows 0..height-1, columns 0..width-1 of the data.
RECURSIVE RowsText(_, _, _)
RowsText(codec, img, i) ==
    IF i > img.height THEN <<>>
    ELSE RowText(codec, [j \in 1..img.width |-> img.data[i][j]], 1)
         \o RowsText(codec, img, i + 1)

\* PBM.Save: the bytes written to the file.
PBMSave(img) ==
    img.magicNumber \o <<NL>> \o Itoa(img.width) \o <<SP>> \o Itoa(img.height)
    \o <<NL>> \o RowsText("PBM", img, 1)

\* PGM.Save: the bytes written to the file.
PGMSave(img) ==
    img.magicNumber \o <<NL>> \o Itoa(img.width) \o <<SP>> \o Itoa(img.height)
    \o <<NL>> \o Itoa(img.max) \o <<NL>> \o RowsText("PGM", img, 1)

SaveBytes(codec, img) == IF codec = "PGM" THEN PGMSave(img) ELSE PBMSave(img)

\* The rows and columns the transforms' loops visit (none when a bound is
\* not positive).
RowIdx(img) == 1..img.height
ColIdx(img) == 1..img.width

\* InvertPixel as it would be if the greyscale difference were clamped at 0.
InvertPixelSat(codec, max, p) ==
    IF codec = "PGM" THEN (IF p > Uint8(max) THEN 0 ELSE Uint8(max) - p) ELSE ~p

\* PBM.Invert / PGM.Invert
InvertPixel(codec, max, p) == IF codec = "PGM" THEN (Uint8(max) - p) % 256 ELSE ~p

InvertData(codec, img) ==
    [i \in DOMAIN img.data |->
        [j \in DOMAIN img.data[i] |->
            IF i \in RowIdx(img) /\ j \in ColIdx(img)
            THEN InvertPixel(codec, img.max, img.data[i][j]) ELSE img.data[i][j]]]

\* Flip: in every row, column j and column width-1-j change places for
\* j < width/2 (1-based: j and width+1-j for j <= width \div 2).
FlipData(img) ==
    LET half == img.width \div 2
        src(j) == IF j <= half \/ j > img.width - half THEN img.width + 1 - j ELSE j
    IN  [i \in DOMAIN img.data |->
            [j \in DOMAIN img.data[i] |->
                IF i \in RowIdx(img) /\ j \in ColIdx(img)
                THEN img.data[i][src(j)] ELSE img.data[i][j]]]

\* Flop: row i and row height-1-i change places, column by column, for
\* i < height/2.
FlopData(img) ==
    LET half == img.height \div 2
        src(i) == IF i <= half \/ i > img.height - half THEN img.height + 1 - i ELSE i
    IN  [i \in DOMAIN img.data |->
            [j \in DOMAIN img.data[i] |->
                IF i \in RowIdx(img) /\ j \in ColIdx(img)
                THEN img.data[src(i)][j] ELSE img.data[i][j]]]

\* Set: data[y][x] = value, x and y 0-based.
SetData(img, x, y, value) == [img.data EXCEPT ![y + 1][x + 1] = value]

\* data[y][x] is an element of the grid.
InRange(img, x, y) ==
    y >= 0 /\ y < Len(img.data) /\ x >= 0 /\ x < Len(img.data[y + 1])

(***************************************************************************)
(* Input files                                                             *)
(*                                                                         *)
(* An input names the reader called and the file it is called on:          *)
(*   magic   the first line                                                *)
(*   comment the length of a comment line after it (0: no such line)       *)
(*   dims    the tokens of the dimension line                              *)
(*   maxl    the tokens of the max-value line (<<>>: no such line)         *)
(*   body    the body: lines of tokens, then raw bytes                     *)
(* A token is a decimal numeral (num, with its value v) or other text.     *)
(***************************************************************************)
MaxDim == 2
MaxRows == 2
MaxBody == 4
MaxOps == 2

Num(n) == [num |-> TRUE, v |-> n, s |-> Itoa(n)]
Junk(t) == [num |-> FALSE, v |-> 0, s |-> t]

SeqsUpTo(S, n) == UNION {[1..k -> S] : k \in 0..n}

RECURSIVE JoinTokens(_, _)
JoinTokens(toks, i) ==
    IF i > Len(toks) THEN <<>>
    ELSE toks[i].s \o (IF i < Len(toks) THEN <<SP>> ELSE <<>>) \o JoinTokens(toks, i + 1)

TextLine(toks) == JoinTokens(toks, 1) \o <<NL>>

RECURSIVE TextLines(_, _)
TextLines(rows, i) ==
    IF i > Len(rows) THEN <<>> ELSE TextLine(rows[i]) \o TextLines(rows, i + 1)

\* The text of a token that is no number, and the byte comments are filled with.
JunkText == <<120>>
FillByte == JunkText[1]

CommentLine(n) ==
    IF n = 0 THEN <<>> ELSE <<HASH>> \o [k \in 1..(n - 1) |-> FillByte] \o <<NL>>

BodyBytes(in) == TextLines(in.body.rows, 1) \o in.body.bytes

\* The bytes of the header: everything before the body.
HeaderBytes(in) ==
    in.magic \o <<NL>> \o CommentLine(in.comment) \o TextLine(in.dims)
    \o (IF in.maxl = <<>> THEN <<>> ELSE TextLine(in.maxl))

File(in) == HeaderBytes(in) \o BodyBytes(in)

MkInput(codec, magic, comment, dims, maxl, rows, bytes) ==
    [codec |-> codec, magic |-> magic, comment |-> comment, dims |-> dims,
     maxl |-> maxl, body |-> [rows |-> rows, bytes |-> bytes]]

Codecs == {"PBM", "PBMInt", "PGM"}

\* The max-value line of a well-formed file of the codec.
MaxLine(codec) == IF codec = "PGM" THEN <<Num(7)>> ELSE <<>>

\* The two pixel tokens the ASCII bodies are made of: for greyscale one
\* within the max value of MaxLine and one above it.
PixA(codec) == IF codec = "PGM" THEN Num(3) ELSE Num(1)
PixB(codec) == IF codec = "PGM" THEN Num(200) ELSE Num(0)

\* A row of n tokens that alternates the two pixel tokens.
PatternRow(codec, n, first) ==
    [j \in 1..n |-> IF (j % 2 = 1) = first THEN PixA(codec) ELSE PixB(codec)]

\* ASCII body lines: rows of up to MaxDim pixel tokens, a blank line, a
\* comment line, a line with a token that is no number.
AsciiRows(codec) ==
    {PatternRow(codec, n, b) : n \in 0..MaxDim, b \in BOOLEAN}
    \cup {<<Junk(<<HASH>>), PixA(codec)>>, <<PixA(codec), Junk(JunkText)>>}

DimPairs == {<<Num(w), Num(h)>> : w \in 0..MaxDim, h \in 0..MaxDim}

\* P1 / P2 files with every body of up to MaxRows such lines.
IsAsciiInput(in) ==
    \E c \in Codecs, d \in DimPairs :
        \E rows \in SeqsUpTo(AsciiRows(c), MaxRows) :
            in = MkInput(c, AsciiMagic(c), 0, d, MaxLine(c), rows, <<>>)

\* Header lines of every kind, over a few bodies.
DimTokens == {Num(0), Num(1), Num(0 - 1), Junk(JunkText)}
DimLines ==
    [1..2 -> DimTokens] \cup [1..1 -> DimTokens]
    \cup {<<Num(1), Num(1), Num(1)>>, <<Num(0), Junk(JunkText), Num(1)>>}
MaxLines(codec) ==
    IF codec = "PGM"
    THEN {<<Num(255)>>, <<Num(300)>>, <<Junk(JunkText)>>, <<Num(1), Num(2)>>, <<>>}
    ELSE {<<>>}
HeaderBodies(codec) ==
    {<<<<>>, <<>>>>, <<<<<<PixA(codec)>>>>, <<>>>>, <<<<>>, <<176, 64>>>>}
IsHeaderInput(in) ==
    \E c \in Codecs, m \in {P1, P2, P3, P4, P5}, d \in DimLines :
        \E x \in MaxLines(c), b \in HeaderBodies(c) :
            in = MkInput(c, m, 0, d, x, b[1], b[2])

\* P4 / P5 files: every body of up to MaxBody bytes, under a header that
\* is short or that a comment line stretches to end one byte before, at,
\* or one byte after the scanner's first buffer-full of the file.
BinMagic(codec) == IF codec = "PGM" THEN P5 ELSE P4
BinMaxLine(codec) == IF codec = "PGM" THEN <<Num(255)>> ELSE <<>>
ByteVals == {NL, 64, 176}
BinBodies == SeqsUpTo(ByteVals, MaxBody) \cup {<<10, 20, 30, 40>>}
BinDims ==
    {<<Num(1), Num(1)>>, <<Num(2), Num(2)>>, <<Num(10), Num(1)>>,
     <<Num(9), Num(2)>>, <<Num(0), Num(2)>>, <<Num(2), Num(0)>>}
BaseLen(c, d) == Len(HeaderBytes(MkInput(c, BinMagic(c), 0, d, BinMaxLine(c), <<>>, <<>>)))
CommentLens(c, d) ==
    {0} \cup {startBufSize + k - BaseLen(c, d) - 1 : k \in {0 - 1, 0, 1}}
IsBinInput(in) ==
    \E c \in Codecs, d \in BinDims :
        \E n \in CommentLens(c, d), b \in BinBodies :
            in = MkInput(c, BinMagic(c), n, d, BinMaxLine(c), <<>>, b)

\* What the input declares, read off the input's structure.
DeclaredNums(in) == Len(in.dims) = 2 /\ in.dims[1].num /\ in.dims[2].num
DeclW(in) == in.dims[1].v
DeclH(in) == in.dims[2].v

\* The files the operations are run on: well-formed, full-size images of a
\* few shapes, ASCII and packed.
OpShapes == {<<0, 2>>, <<2, 0>>, <<1, 1>>, <<2, 2>>, <<3, 2>>, <<2, 3>>}
IsOpInput(in) ==
    \/ \E c \in {"PBM", "PGM"}, d \in OpShapes, b \in BOOLEAN :
          in = MkInput(c, AsciiMagic(c), 0, <<Num(d[1]), Num(d[2])>>, MaxLine(c),
                       [i \in 1..d[2] |-> PatternRow(c, d[1], (i % 2 = 1) = b)], <<>>)
    \/ \E c \in {"PBM", "PGM"} :
          in = MkInput(c, AsciiMagic(c), 0, <<Num(2), Num(2)>>, MaxLine(c),
                       <<<<PixA(c)>>, <<>>, <<PixB(c), PixA(c)>>>>, <<>>)
    \/ \E c \in {"PBM", "PGM"}, b \in [1..4 -> ByteVals] \cup {<<10, 20, 30, 40>>} :
          in = MkInput(c, BinMagic(c), startBufSize - BaseLen(c, <<Num(2), Num(2)>>) - 1,
                       <<Num(2), Num(2)>>, BinMaxLine(c), <<>>, b)

(***************************************************************************)
(* The state machine                                                       *)
(*                                                                         *)
(* input    the reader and the file it is called on                        *)
(* pc       "start": not read yet; "ready": the reader returned an image;  *)
(*          "failed": it returned an error; "panicked": the program        *)
(*          aborted on an out-of-range index                               *)
(* res      what the reader returned                                       *)
(* img      the image the caller holds                                     *)
(* trail    the operations applied to img, each with the image before it   *)
(* saved    the file Save wrote, and the image it was called on            *)
(* reloaded what the reader returned for the saved file                    *)
(***************************************************************************)
VARIABLES input, pc, res, img, trail, saved, reloaded

vars == <<input, pc, res, img, trail, saved, reloaded>>

NoResult == [status |-> "none", err |-> "nil", img |-> NoImage, bodyReads |-> 0]
NoFile == [written |-> FALSE, bytes |-> <<>>, img |-> NoImage]

InitRest ==
    /\ pc = "start"
    /\ res = NoResult
    /\ img = NoImage
    /\ trail = <<>>
    /\ saved = NoFile
    /\ reloaded = NoResult

Init == IsOpInput(input) /\ InitRest

InitCodec ==
    /\ IsAsciiInput(input) \/ IsHeaderInput(input) \/ IsBinInput(input)
    /\ InitRest

PcAfter(status) ==
    CASE status = "ok" -> "ready"
      [] status = "error" -> "failed"
      [] OTHER -> "panicked"

Returns(r) ==
    /\ res' = r
    /\ img' = r.img
    /\ pc' = PcAfter(r.status)
    /\ UNCHANGED <<input, trail, saved, reloaded>>

\* ReadPBM of the bool-backed bitmap
ReadPBM ==
    /\ pc = "start"
    /\ input.codec = "PBM"
    /\ Returns(DecodePBM("PBM", File(input)))

\* ReadPBM of the int-backed bitmap
ReadPBMInt ==
    /\ pc = "start"
    /\ input.codec = "PBMInt"
    /\ Returns(DecodePBM("PBMInt", File(input)))

ReadPGM ==
    /\ pc = "start"
    /\ input.codec = "PGM"
    /\ Returns(DecodePGM(File(input)))

\* The methods exist on the bool-backed PBM and on PGM.
CanOperate == pc = "ready" /\ input.codec \in {"PBM", "PGM"} /\ Len(trail) < MaxOps

Applied(op, data) ==
    /\ img' = [img EXCEPT !.data = data]
    /\ trail' = Append(trail, [op |-> op, before |-> img])
    /\ pc' = pc
    /\ UNCHANGED <<input, res, saved, reloaded>>

SetValues == IF input.codec = "PGM" THEN {9, 255} ELSE {TRUE, FALSE}

Set ==
    /\ CanOperate
    /\ \E x \in 0..img.width, y \in 0..img.height, v \in SetValues :
          IF InRange(img, x, y)
          THEN Applied("Set", SetData(img, x, y, v))
          ELSE /\ pc' = "panicked"
               /\ UNCHANGED <<input, res, img, trail, saved, reloaded>>

Invert == CanOperate /\ Applied("Invert", InvertData(input.codec, img))

Flip == CanOperate /\ Applied("Flip", FlipData(img))

Flop == CanOperate /\ Applied("Flop", FlopData(img))

SetMagicNumber ==
    /\ CanOperate
    /\ \E m \in {P1, P2, P4, P5} :
          /\ img' = [img EXCEPT !.magicNumber = m]
          /\ trail' = Append(trail, [op |-> "SetMagicNumber", before |-> img])
    /\ UNCHANGED <<input, pc, res, saved, reloaded>>

\* SetMaxValue takes a uint8.
SetMaxValue ==
    /\ CanOperate
    /\ input.codec = "PGM"
    /\ \E m \in {0, 100, 255} :
          /\ img' = [img EXCEPT !.max = m]
          /\ trail' = Append(trail, [op |-> "SetMaxValue", before |-> img])
    /\ UNCHANGED <<input, pc, res, saved, reloaded>>

Save ==
    /\ pc = "ready"
    /\ input.codec \in {"PBM", "PGM"}
    /\ ~saved.written
    /\ saved' = [written |-> TRUE, bytes |-> SaveBytes(input.codec, img), img |-> img]
    /\ UNCHANGED <<input, pc, res, img, trail, reloaded>>

\* The same reader, called on the file Save wrote.
Reload ==
    /\ saved.written
    /\ reloaded.status = "none"
    /\ reloaded' = Decode(input.codec, saved.bytes)
    /\ UNCHANGED <<input, pc, res, img, trail, saved>>

Next ==
    \/ ReadPBM \/ ReadPGM
    \/ Set \/ Invert \/ Flip \/ Flop \/ SetMagicNumber \/ SetMaxValue

Spec == Init /\ [][Next]_vars

NextCodec == ReadPBM \/ ReadPBMInt \/ ReadPGM \/ Save \/ Reload

SpecCodec == InitCodec /\ [][NextCodec]_vars

(***************************************************************************)
(* Properties                                                              *)
(***************************************************************************)
Called == pc # "start"
IsBitmap == input.codec \in {"PBM", "PBMInt"}

\* The max-value line is there and holds one integer (greyscale only).
MaxLineValid == input.codec = "PGM" => (Len(input.maxl) = 1 /\ input.maxl[1].num)

\* The file declares a width and a height, both positive.
DeclaresPixels == DeclaredNums(input) /\ DeclW(input) > 0 /\ DeclH(input) > 0

CeilDiv8(w) == (w + 7) \div 8

\* Body byte number k (0-based) of a packed file.
BodyByte(k) == input.body.bytes[k + 1]

\* A stored bitmap element is "true".
IsSet(p) == IF input.codec = "PBM" THEN p ELSE p = 1

\* C1: a grid read from a P1 or P2 file, saved and read again by the same
\* reader, comes back: the read succeeds and returns the same width,
\* height, magic number, max value and pixels.
C1_RoundTripAscii ==
    (reloaded.status # "none" /\ res.img.magicNumber = AsciiMagic(input.codec))
        => /\ reloaded.status = "ok"
           /\ reloaded.img.width = res.img.width
           /\ reloaded.img.height = res.img.height
           /\ reloaded.img.magicNumber = res.img.magicNumber
           /\ reloaded.img.max = res.img.max
           /\ reloaded.img.data = res.img.data

C1_Witness ==
    /\ reloaded.status = "ok"
    /\ input.codec = "PGM"
    /\ res.img.magicNumber = P2
    /\ res.img.width = 2 /\ res.img.height = 2
    /\ res.img.data = <<<<3, 200>>, <<200, 0>>>>

P4Case ==
    /\ Called /\ IsBitmap /\ input.magic = P4
    /\ DeclaresPixels
    /\ input.body.rows = <<>>

\* C2: a P4 file with at least height * ceil(width/8) body bytes is read
\* successfully, and pixel (i, j) is set exactly when bit 7 - (j mod 8) of
\* body byte i * ceil(width/8) + (j div 8) is set.
C2_P4Unpacking ==
    (P4Case /\ Len(input.body.bytes) >= DeclH(input) * CeilDiv8(DeclW(input)))
        => /\ res.status = "ok"
           /\ \A i \in 0..(DeclH(input) - 1), j \in 0..(DeclW(input) - 1) :
                 IsSet(res.img.data[i + 1][j + 1])
                 = (BitOf(BodyByte(i * CeilDiv8(DeclW(input)) + (j \div 8)),
                          7 - (j % 8)) = 1)

P5Case ==
    /\ Called /\ input.codec = "PGM" /\ input.magic = P5
    /\ DeclaresPixels /\ MaxLineValid
    /\ input.body.rows = <<>>

\* C3: a P5 file with at least width * height body bytes is read
\* successfully, and pixel (i, j) is body byte i * width + j.
C3_P5Bytes ==
    (P5Case /\ Len(input.body.bytes) >= DeclW(input) * DeclH(input))
        => /\ res.status = "ok"
           /\ \A i \in 0..(DeclH(input) - 1), j \in 0..(DeclW(input) - 1) :
                 res.img.data[i + 1][j + 1] = BodyByte(i * DeclW(input) + j)

\* C4: a P4 or P5 file whose body holds fewer than height * bytesPerRow
\* bytes is answered with an error and no grid.
C4_PackedTruncation ==
    /\ (P4Case /\ Len(input.body.bytes) < DeclH(input) * CeilDiv8(DeclW(input)))
          => (res.status = "error" /\ res.img = NoImage)
    /\ (P5Case /\ Len(input.body.bytes) < DeclW(input) * DeclH(input))
          => (res.status = "error" /\ res.img = NoImage)

\* The body lines that are neither blank nor comments.
DataLines ==
    {k \in 1..Len(input.body.rows) :
        input.body.rows[k] # <<>> /\ input.body.rows[k][1].s[1] # HASH}

AsciiCase ==
    /\ Called /\ input.magic = AsciiMagic(input.codec)
    /\ DeclaresPixels /\ MaxLineValid
    /\ input.body.bytes = <<>>

\* C5: a P1 or P2 file whose body has fewer than height lines that are
\* neither blank nor comments is answered with an error and no grid.
C5_AsciiTruncation ==
    (AsciiCase /\ Cardinality(DataLines) < DeclH(input))
        => (res.status = "error" /\ res.img = NoImage)

\* C6: under an accepted magic number, a dimension line that does not hold
\* exactly two tokens, or holds a token that is no non-negative decimal
\* integer, is answered with the invalid-dimensions error and no grid.
C6_DimensionValidation ==
    (/\ Called /\ input.magic \in Accepted(input.codec)
     /\ \/ Len(input.dims) # 2
        \/ \E k \in 1..Len(input.dims) : ~input.dims[k].num \/ input.dims[k].v < 0)
        => /\ res.status = "error"
           /\ res.err = "invalid image dimensions"
           /\ res.img = NoImage

EmptyCase ==
    /\ Called /\ input.magic \in Accepted(input.codec) /\ MaxLineValid
    /\ DeclaredNums(input) /\ DeclW(input) >= 0 /\ DeclH(input) >= 0
    /\ (DeclW(input) = 0 \/ DeclH(input) = 0)

\* C7: a file that declares width 0 or height 0 is read successfully into
\* a grid of zero rows with the declared width and height, and no body line
\* or body byte is read.
C7_EmptyImage ==
    EmptyCase
        => /\ res.status = "ok"
           /\ res.img.data = <<>>
           /\ res.img.width = DeclW(input)
           /\ res.img.height = DeclH(input)
           /\ res.bodyReads = 0

C7_Witness ==
    /\ EmptyCase /\ res.status = "ok"
    /\ input.magic = P5 /\ DeclW(input) = 0 /\ DeclH(input) = 2
    /\ Len(input.body.bytes) > 0

\* The image after the k-th operation of the trail.
After(k) == IF k = Len(trail) THEN img ELSE trail[k + 1].before

\* C8: Flip twice, Flop twice or Invert twice in a row leaves the image
\* (pixels, width, height, magic number, max value) as it was before.
C8_Involutions ==
    \A k \in 1..(Len(trail) - 1) :
        (trail[k].op = trail[k + 1].op /\ trail[k].op \in {"Flip", "Flop", "Invert"})
            => After(k + 1) = trail[k].before

C8_Witness ==
    /\ Len(trail) >= 2
    /\ trail[1].op = "Invert" /\ trail[2].op = "Invert"
    /\ input.codec = "PGM"
    /\ trail[1].before.width > 0 /\ trail[1].before.height > 0
    /\ trail[1].before.data[1][1] > trail[1].before.max

Rectangular(g) ==
    IF g.width > 0 /\ g.height > 0
    THEN Len(g.data) = g.height /\ \A i \in 1..Len(g.data) : Len(g.data[i]) = g.width
    ELSE (g.width = 0 \/ g.height = 0) => Len(g.data) = 0

\* C9: after a successful read and any operations, the grid holds height
\* rows of width elements (zero rows when width or height is 0), and width
\* and height are those the read returned.
C9_GridShape ==
    res.status = "ok"
        => /\ Rectangular(img)
           /\ img.width = res.img.width
           /\ img.height = res.img.height

C9_Witness ==
    /\ res.status = "ok" /\ Len(trail) >= 2
    /\ trail[1].op = "Set" /\ trail[2].op = "Flip"
    /\ img.width = 3 /\ img.height = 2
    /\ img # res.img

\* C10: reading a P1 or P2 body never indexes outside the grid: the call
\* returns a grid or an error.
C10_AsciiInRange ==
    (Called /\ input.magic = AsciiMagic(input.codec)) => res.status # "panic"

====
